---- MODULE Spec2Model ----
(***************************************************************************)
(* Model of crosh's proxy core: the Xray-core supervisor                   *)
(* (internal/proxy/xray.go: Download, Start, Stop, IsRunning), the node    *)
(* selector and the subscription parser (internal/proxy/subscription.go:   *)
(* SelectFastestNode, FetchSubscription, LoadFromFile).                    *)
(*                                                                         *)
(* Five specifications share the variables:                                *)
(*   SpecLife     - Start/Stop/IsRunning of several controller invocations *)
(*                  over the shared PID file and the OS process table;     *)
(*   SpecDownload - one run of XrayManager.Download, step by step;         *)
(*   SpecSelect   - one run of Subscription.SelectFastestNode;             *)
(*   SpecParse    - one call of FetchSubscription or LoadFromFile on a     *)
(*                  subscription text;                                     *)
(*   SpecEnable   - calls of Manager.EnableProxy                           *)
(*                  (internal/accelerator/manager.go) with GenerateConfig  *)
(*                  and Start.                                             *)
(***************************************************************************)
EXTENDS Integers, Sequences, FiniteSets, TLC

(***************************************************************************)
(* Bounds                                                                  *)
(***************************************************************************)
NumManagers == 1        \* controller invocations alive at the same time
NumPids == 2            \* size of the OS process-id space
PidBase == 8            \* process ids are PidBase+1 .. PidBase+NumPids
MaxSpawns == 2          \* engine processes spawned in one behaviour
MaxNodes == 3           \* nodes of a subscription
MaxLines == 3           \* lines of a subscription text
MaxProxies == 3         \* entries under "proxies:" of a YAML document
MaxCalls == 1           \* calls of EnableProxy in one behaviour

Managers == 1..NumManagers
Pids == (PidBase + 1)..(PidBase + NumPids)

(***************************************************************************)
(* State.  Files are "absent", "partial" (being written) or "complete".    *)
(***************************************************************************)
VARIABLES
    binary,     \* content of x.xrayPath
    \* ---- Start / Stop / IsRunning
    pidFile,    \* xray.pid: whether it exists, and its text as a sequence of digits
    logFile,    \* TRUE when xray.log exists
    procs,      \* OS process table: pid -> "free" | "engine" | "exited" | "other"
    cmd,        \* x.cmd of each manager: NoCmd, NoProcess or the child's pid
    pc,         \* position of each manager inside Start / Stop
    pre,        \* per manager, inside Start: did xray.pid name a live engine at the call
    spawns,     \* number of engines spawned so far
    ev,         \* what the last step did (call, manager, return value, pid)
    \* ---- Download
    goos,       \* runtime.GOOS
    goarch,     \* runtime.GOARCH
    tmpZip,     \* content of x.xrayPath + ".tmp.zip"
    tmpBin,     \* content of x.xrayPath + ".tmp"
    geoFiles,   \* content of geoip.dat and geosite.dat
    geoTmp,     \* content of geoip.dat.tmp and geosite.dat.tmp
    dpc,        \* position inside Download
    di,         \* index of the source in the current loop
    gi,         \* index of the geo data file
    gsi,        \* index of the source of the geo data file
    geoErr,     \* local variable lastErr of downloadGeoData
    version,    \* local variable version of Download
    assetName,  \* local variable assetName of Download
    lastErr,    \* local variable lastErr of the current loop
    apiLog,     \* version-info requests made, in order
    dlLog,      \* binary download requests made, in order
    geoLog,     \* geo data requests made, in order
    dret,       \* return value of Download
    atCall,     \* the binary and the geo data files as Download found them
    \* ---- SelectFastestNode
    nodes,      \* s.Nodes: per node its Latency, and how its dial ended
    si,         \* loop index i
    minLatency, \* local variable minLatency
    fastestNode,\* local variable fastestNode: index into s.Nodes, 0 for nil
    spc,        \* position inside SelectFastestNode
    sret,       \* return value of SelectFastestNode
    \* ---- parseSubscription / parseYAMLSubscription
    content,    \* the subscription text: its lines and what a YAML decoder makes of it
    pret,       \* return value of the parser that was called
    \* ---- GenerateConfig / EnableProxy
    configFile, \* config.json: whether it exists, and the config it holds
    savedNode,  \* proxy.current_node of the saved configuration
    epc,        \* position inside EnableProxy
    ecall,      \* the current call of EnableProxy: its manager, the node it
                \* selected, the steps that returned, and the state it found
    eret,       \* return value of EnableProxy
    calls       \* calls of EnableProxy so far

lifeVars == <<pidFile, logFile, procs, cmd, pc, pre, spawns, ev>>
dlVars == <<goos, goarch, tmpZip, tmpBin, geoFiles, geoTmp, dpc, di, gi, gsi, geoErr,
            version,
            assetName, lastErr, apiLog, dlLog, geoLog, dret, atCall>>
selVars == <<nodes, si, minLatency, fastestNode, spc, sret>>
parseVars == <<content, pret>>
enVars == <<configFile, savedNode, epc, ecall, eret, calls>>
vars == <<binary, lifeVars, dlVars, selVars, parseVars, enVars>>

NoFile == [exists |-> FALSE, text |-> <<>>]
File(text) == [exists |-> TRUE, text |-> text]
NoCmd == 0                  \* x.cmd == nil
NoProcess == -1             \* x.cmd != nil, x.cmd.Process == nil
NoEv == [op |-> "none", m |-> 0, ret |-> "none", pid |-> 0, live |-> FALSE]

(***************************************************************************)
(* fmt.Sprintf("%d", pid): the decimal text of a positive integer.         *)
(***************************************************************************)
RECURSIVE FormatDecimal(_)
FormatDecimal(n) ==
    IF n < 10 THEN <<n>> ELSE FormatDecimal(n \div 10) \o <<n % 10>>

(***************************************************************************)
(* fmt.Sscanf(text, "%d", &pid) on a variable that starts at 0: the value  *)
(* of the leading digits; with no digit nothing is stored and pid stays 0. *)
(***************************************************************************)
RECURSIVE ScanDigits(_, _)
ScanDigits(s, acc) ==
    IF s = <<>> THEN acc ELSE ScanDigits(Tail(s), acc * 10 + Head(s))

SscanfPid(text) == ScanDigits(text, 0)

(***************************************************************************)
(* os.Process.Signal(sig) as the standard library implements it: only a    *)
(* syscall.Signal is accepted.  The nil interface value os.Signal(nil)     *)
(* fails the type assertion and Signal returns the error                   *)
(* "os: unsupported signal type" whatever the state of the process (on     *)
(* Windows every signal other than Kill is an error as well).              *)
(***************************************************************************)
ProcessSignal(sig, exists) ==
    IF sig = "nil" THEN "unsupported signal type"
    ELSE IF exists THEN "ok" ELSE "process already finished"

\* the process table has an entry for pid
ProcessExists(pid) == pid \in Pids /\ procs[pid] # "free"

(***************************************************************************)
(* XrayManager.IsRunning: both probes pass os.Signal(nil).                 *)
(***************************************************************************)
IsRunning(m) ==
    IF cmd[m] \in Pids
    THEN ProcessSignal("nil", ProcessExists(cmd[m])) = "ok"
    ELSE IF ~pidFile.exists
         THEN FALSE
         ELSE ProcessSignal("nil", ProcessExists(SscanfPid(pidFile.text))) = "ok"

\* xray.pid names a process that is alive and is the engine
PidFileNamesLiveEngine ==
    /\ pidFile.exists
    /\ SscanfPid(pidFile.text) \in Pids
    /\ procs[SscanfPid(pidFile.text)] = "engine"

\* xray.pid names a process that is alive (engine or not)
PidFileNamesLiveProcess ==
    /\ pidFile.exists
    /\ SscanfPid(pidFile.text) \in Pids
    /\ procs[SscanfPid(pidFile.text)] \in {"engine", "other"}

\* the manager whose child a process is, if that controller still runs
HasParent(p) == \E m \in Managers : cmd[m] = p

\* state of a process after it terminates: a child that was not waited for
\* stays in the table until its parent reaps it or exits
Terminated(p) == IF HasParent(p) THEN "exited" ELSE "free"

LifeInit ==
    /\ pidFile = NoFile
    /\ logFile = FALSE
    /\ procs = [p \in Pids |-> "free"]
    /\ cmd = [m \in Managers |-> NoCmd]
    /\ pc = [m \in Managers |-> "idle"]
    /\ pre = [m \in Managers |-> FALSE]
    /\ spawns = 0
    /\ ev = NoEv

(***************************************************************************)
(* XrayManager.Start, in three steps: the checks, the spawn, the PID file. *)
(***************************************************************************)
\* Start, lines 681-683: os.Stat(x.xrayPath) reports that the file is missing
BinaryNotExistIgnored(b) == FALSE
BinaryNotExist(b) == b = "absent"

StartCheck(m) ==
    /\ pc[m] = "idle"
    /\ LET live == PidFileNamesLiveEngine
           Ret(r) == [op |-> "Start", m |-> m, ret |-> r, pid |-> 0, live |-> live]
       IN IF BinaryNotExist(binary)
          THEN /\ ev' = Ret("not found")
               /\ UNCHANGED <<pc, logFile, pre>>
          ELSE IF IsRunning(m)
          THEN /\ ev' = Ret("already running")
               /\ UNCHANGED <<pc, logFile, pre>>
          ELSE \/ /\ ev' = Ret("log file error")
                  /\ UNCHANGED <<pc, logFile, pre>>
               \/ /\ logFile' = TRUE
                  /\ pc' = [pc EXCEPT ![m] = "start_spawn"]
                  /\ pre' = [pre EXCEPT ![m] = live]
                  /\ ev' = Ret("pending")
    /\ UNCHANGED <<dlVars, selVars, parseVars, enVars, binary, pidFile, procs, cmd, spawns>>

StartSpawn(m) ==
    /\ pc[m] = "start_spawn"
    /\ \/ /\ cmd' = [cmd EXCEPT ![m] = NoProcess]
          /\ pc' = [pc EXCEPT ![m] = "idle"]
          /\ pre' = [pre EXCEPT ![m] = FALSE]
          /\ ev' = [op |-> "Start", m |-> m, ret |-> "spawn error", pid |-> 0,
                    live |-> pre[m]]
          /\ UNCHANGED <<procs, spawns>>
       \/ /\ spawns < MaxSpawns
          /\ \E p \in Pids :
               /\ procs[p] = "free"
               /\ procs' = [procs EXCEPT ![p] = "engine"]
               /\ cmd' = [cmd EXCEPT ![m] = p]
               /\ ev' = [op |-> "Start", m |-> m, ret |-> "pending", pid |-> p,
                         live |-> pre[m]]
          /\ spawns' = spawns + 1
          /\ pc' = [pc EXCEPT ![m] = "start_write"]
          /\ UNCHANGED pre
    /\ UNCHANGED <<dlVars, selVars, parseVars, enVars, binary, pidFile, logFile>>

\* os.WriteFile(pidFile, ...) whose error is discarded: the file is
\* written, or cannot be opened (left as it was), or is truncated and the
\* write fails (left empty)
WritePidFile(p, outcome) ==
    CASE outcome = "ok" -> File(FormatDecimal(p))
      [] outcome = "open error" -> pidFile
      [] outcome = "write error" -> File(<<>>)

StartWritePid(m) ==
    /\ pc[m] = "start_write"
    /\ \E outcome \in {"ok", "open error", "write error"} :
         pidFile' = WritePidFile(cmd[m], outcome)
    /\ pc' = [pc EXCEPT ![m] = "idle"]
    /\ pre' = [pre EXCEPT ![m] = FALSE]
    /\ ev' = [op |-> "Start", m |-> m, ret |-> "ok", pid |-> cmd[m], live |-> pre[m]]
    /\ UNCHANGED <<dlVars, selVars, parseVars, enVars, binary, logFile, procs, cmd, spawns>>

(***************************************************************************)
(* XrayManager.Stop, in two steps: the kill, the removal of the PID file.  *)
(***************************************************************************)
\* x.cmd.Process.Kill() on the manager's own child.  A running child is
\* killed.  A child that has already exited and was not waited for is a
\* zombie on Unix (kill succeeds) and a finished process on Windows
\* (TerminateProcess fails): both outcomes.
KillOutcomes(p) == IF procs[p] = "engine" THEN {"ok"} ELSE {"ok", "error"}

StopKill(m) ==
    /\ pc[m] = "idle"
    /\ IF cmd[m] \in Pids
       THEN \E outcome \in KillOutcomes(cmd[m]) :
              IF outcome = "error"
              THEN /\ ev' = [op |-> "Stop", m |-> m, ret |-> "kill error", pid |-> cmd[m], live |-> FALSE]
                   /\ UNCHANGED <<procs, cmd, pc>>
              ELSE /\ procs' = [procs EXCEPT ![cmd[m]] = "free"]
                   /\ cmd' = [cmd EXCEPT ![m] = NoCmd]
                   /\ pc' = [pc EXCEPT ![m] = "stop_remove"]
                   /\ ev' = [op |-> "Stop", m |-> m, ret |-> "pending", pid |-> cmd[m], live |-> FALSE]
       ELSE /\ IF pidFile.exists /\ SscanfPid(pidFile.text) \in Pids
                  /\ procs[SscanfPid(pidFile.text)] \in {"engine", "other"}
               THEN LET p == SscanfPid(pidFile.text) IN
                    /\ procs' = [procs EXCEPT ![p] = Terminated(p)]
                    /\ ev' = [op |-> "Stop", m |-> m, ret |-> "pending", pid |-> p, live |-> FALSE]
               ELSE /\ procs' = procs
                    /\ ev' = [op |-> "Stop", m |-> m, ret |-> "pending", pid |-> 0, live |-> FALSE]
            /\ pc' = [pc EXCEPT ![m] = "stop_remove"]
            /\ UNCHANGED cmd
    /\ UNCHANGED <<dlVars, selVars, parseVars, enVars, binary, pidFile, logFile, pre, spawns>>

StopRemoveKeepsFile(m) ==
    /\ pc[m] = "stop_remove"
    /\ pc' = [pc EXCEPT ![m] = "idle"]
    /\ ev' = [op |-> "Stop", m |-> m, ret |-> "ok", pid |-> 0, live |-> FALSE]
    /\ UNCHANGED <<dlVars, selVars, parseVars, enVars, binary, pidFile, logFile, procs, cmd, pre,
                   spawns>>
StopRemove(m) ==
    /\ pc[m] = "stop_remove"
    /\ pidFile' = NoFile
    /\ pc' = [pc EXCEPT ![m] = "idle"]
    /\ ev' = [op |-> "Stop", m |-> m, ret |-> "ok", pid |-> 0, live |-> FALSE]
    /\ UNCHANGED <<dlVars, selVars, parseVars, enVars, binary, logFile, procs, cmd, pre, spawns>>

(***************************************************************************)
(* A call of IsRunning (GetProxyStatus): reads, changes nothing.           *)
(***************************************************************************)
IsRunningCall(m) ==
    /\ pc[m] = "idle"
    /\ ev' = [op |-> "IsRunning", m |-> m,
              ret |-> IF IsRunning(m) THEN "true" ELSE "false", pid |-> 0, live |-> FALSE]
    /\ UNCHANGED <<dlVars, selVars, parseVars, enVars, binary, pidFile, logFile, procs, cmd, pc, pre, spawns>>

(***************************************************************************)
(* Environment: the engine exits by itself; the controller process ends    *)
(* and a later invocation builds a new manager (NewXrayManager, cmd nil);  *)
(* an unrelated process takes or leaves a free process id.                 *)
(***************************************************************************)
EngineExit(p) ==
    /\ procs[p] = "engine"
    /\ procs' = [procs EXCEPT ![p] = Terminated(p)]
    /\ ev' = NoEv
    /\ UNCHANGED <<dlVars, selVars, parseVars, enVars, binary, pidFile, logFile, cmd, pc, pre, spawns>>

NewXrayManager(m) ==
    /\ pc[m] = "idle"
    /\ cmd[m] # NoCmd
    /\ cmd' = [cmd EXCEPT ![m] = NoCmd]
    /\ procs' = [p \in Pids |->
                   IF cmd[m] = p /\ procs[p] = "exited" THEN "free" ELSE procs[p]]
    /\ ev' = NoEv
    /\ UNCHANGED <<dlVars, selVars, parseVars, enVars, binary, pidFile, logFile, pc, pre, spawns>>

OtherProcess(p) ==
    /\ procs[p] \in {"free", "other"}
    /\ procs' = [procs EXCEPT ![p] = IF procs[p] = "free" THEN "other" ELSE "free"]
    /\ ev' = NoEv
    /\ UNCHANGED <<dlVars, selVars, parseVars, enVars, binary, pidFile, logFile, cmd, pc, pre, spawns>>

\* the binary is deleted from the data directory (Start, line 681, looks
\* for it at every call)
BinaryRemoved ==
    /\ binary = "complete"
    /\ binary' = "absent"
    /\ ev' = NoEv
    /\ UNCHANGED <<dlVars, selVars, parseVars, enVars, pidFile, logFile, procs, cmd, pc, pre,
                   spawns>>

NextLife ==
    \/ BinaryRemoved
    \/ \E m \in Managers : StartCheck(m)
    \/ \E m \in Managers : StartSpawn(m)
    \/ \E m \in Managers : StartWritePid(m)
    \/ \E m \in Managers : StopKill(m)
    \/ \E m \in Managers : StopRemove(m)
    \/ \E m \in Managers : IsRunningCall(m)
    \/ \E m \in Managers : NewXrayManager(m)
    \/ \E p \in Pids : EngineExit(p)
    \/ \E p \in Pids : OtherProcess(p)


(***************************************************************************)
(* Download                                                                *)
(***************************************************************************)
\* var xraySources: the names, in list order
xraySources == <<"Cloudflare CDN (crosh mirror)", "Official GitHub">>

NumSources == Len(xraySources)

\* strings.Contains(source.Name, "Cloudflare")
IsCloudflare(name) == name = "Cloudflare CDN (crosh mirror)"

\* the two data files of downloadGeoData, each with two sources
geoNames == <<"geoip.dat", "geosite.dat">>

NumGeoSources == 2

NoErr == [src |-> 0, why |-> "nil"]
Pending == [src |-> 0, why |-> "pending"]     \* log entry of a running attempt
Err(i, why) == [src |-> i, why |-> why]

\* getXrayPlatformNames: GOOS / GOARCH in Xray-core's naming
XrayOsName(os) == IF os = "darwin" THEN "macos" ELSE os

XrayArchName(arch) ==
    CASE arch = "amd64" -> "64"
      [] arch = "386" -> "32"
      [] arch = "arm64" -> "arm64-v8a"
      [] arch = "arm" -> "arm32-v7a"
      [] arch \in {"mips64", "mips64le"} -> "mips64"
      [] arch \in {"mips", "mipsle"} -> "mips32"
      [] OTHER -> arch

\* an asset name "Xray-<os>-<arch><ext>" as its parts
Asset(os, arch, ext) == [os |-> os, arch |-> arch, ext |-> ext]

NoAsset == Asset("", "", "")

\* getDefaultAssetName
getDefaultAssetName == Asset(XrayOsName(goos), XrayArchName(goarch), ".zip")

\* the version that a failed discovery falls back to
DefaultVersion == "v1.8.4"

\* what the mirror's VERSION file and the releases API can answer
CdnVersions == {"v25.1.1"}
GitHubTags == {"v25.2.2"}
GitHubAssetLists ==
    { <<>>,
      <<Asset("linux", "64", ".zip.dgst"), Asset("linux", "64", ".zip"),
        Asset("macos", "arm64-v8a", ".zip")>>,
      <<Asset("linux", "arm64-v8a", ".zip"), Asset("macos", "64", ".zip")>> }

\* fetchReleaseInfo: the first asset whose name contains "Xray-<os>-<arch>"
\* and ends with ".zip"; 0 when there is none
AssetMatches(a) ==
    /\ a.os = XrayOsName(goos)
    /\ a.arch = XrayArchName(goarch)
    /\ a.ext = ".zip"

FirstAsset(assets) ==
    LET hits == {k \in 1..Len(assets) : AssetMatches(assets[k])}
    IN IF hits = {} THEN 0 ELSE CHOOSE k \in hits : \A j \in hits : k <= j

\* the answers one version-info request can get: an error, or version and asset
CdnAnswers(i) ==
    {[err |-> Err(i, why), version |-> "", asset |-> NoAsset] :
        why \in {"request failed", "HTTP 404"}}
    \cup {[err |-> NoErr, version |-> v, asset |-> getDefaultAssetName] :
            v \in CdnVersions}

GitHubAnswers(i) ==
    {[err |-> Err(i, why), version |-> "", asset |-> NoAsset] :
        why \in {"request failed", "API returned status"}}
    \cup {IF FirstAsset(l) = 0
          THEN [err |-> Err(i, "no suitable binary"), version |-> "", asset |-> NoAsset]
          ELSE [err |-> NoErr, version |-> t, asset |-> l[FirstAsset(l)]] :
            t \in GitHubTags, l \in GitHubAssetLists}

VersionAnswers(i) ==
    IF IsCloudflare(xraySources[i]) THEN CdnAnswers(i) ELSE GitHubAnswers(i)

ReleaseAsAnswered(answer) == [version |-> answer.version, asset |-> answer.asset]

\* Download, lines 69-75: what the download loop uses after discovery
ReleaseToUse(answer) ==
    IF answer.err # NoErr
    THEN [version |-> DefaultVersion, asset |-> getDefaultAssetName]
    ELSE [version |-> answer.version, asset |-> answer.asset]

AfterAttemptNoBreak(err, i, n) == IF i < n THEN i + 1 ELSE 0

\* a loop over the source list after the attempt on source i returned err:
\* break on success, else the next source, else the end of the loop
AfterAttempt(err, i, n) ==
    IF err = NoErr THEN 0 ELSE IF i < n THEN i + 1 ELSE 0

\* the value of lastErr after the attempt returned err
LastErrAfter(old, err) == IF err = NoErr THEN old ELSE err

\* Download, lines 95-97: the return value when the loop is over
DownloadLoopResult(e) ==
    IF e # NoErr THEN [done |-> TRUE, ok |-> FALSE, err |-> e, warning |-> NoErr]
    ELSE [done |-> FALSE, ok |-> TRUE, err |-> NoErr, warning |-> NoErr]

NotReturned == [done |-> FALSE, ok |-> FALSE, err |-> NoErr, warning |-> NoErr]
Returned(err, warning) ==
    [done |-> TRUE, ok |-> err = NoErr, err |-> err, warning |-> warning]

SetLast(log, r) == [log EXCEPT ![Len(log)].result = r]

DlInit ==
    /\ tmpZip = "absent"
    /\ tmpBin = "absent"
    /\ geoTmp = [k \in 1..Len(geoNames) |-> "absent"]
    /\ dpc = "idle"
    /\ di = 0
    /\ gi = 0
    /\ gsi = 0
    /\ geoErr = NoErr
    /\ version = ""
    /\ assetName = NoAsset
    /\ lastErr = NoErr
    /\ apiLog = <<>>
    /\ dlLog = <<>>
    /\ geoLog = <<>>
    /\ dret = NotReturned
    /\ atCall = [binary |-> binary, geoFiles |-> geoFiles]

\* Download, line 58: os.Stat(x.xrayPath) succeeds
BinaryExistsIgnored(b) == FALSE
BinaryExists(b) == b # "absent"

\* Download, lines 56-66
DownloadBegin ==
    /\ dpc = "idle"
    /\ IF BinaryExists(binary)
       THEN /\ dpc' = "geo_file"
            /\ gi' = 1
            /\ UNCHANGED <<di, dret>>
       ELSE \/ /\ dret' = Returned(Err(0, "failed to create directory"), NoErr)
               /\ dpc' = "done"
               /\ UNCHANGED <<di, gi>>
            \/ /\ dpc' = "discover"
               /\ di' = 1
               /\ UNCHANGED <<gi, dret>>
    /\ UNCHANGED <<lifeVars, selVars, parseVars, enVars, atCall, gsi, geoErr, binary, goos, goarch,
                   tmpZip, tmpBin, geoFiles, geoTmp, version, assetName,
                   lastErr, apiLog, dlLog, geoLog>>

\* getLatestReleaseInfo, one source per step, and lines 69-75 of Download
\* once it has returned
Discover ==
    /\ dpc = "discover"
    /\ \E answer \in VersionAnswers(di) :
         /\ apiLog' = Append(apiLog, [src |-> di, result |-> answer])
         /\ IF AfterAttempt(answer.err, di, NumSources) # 0
            THEN /\ di' = AfterAttempt(answer.err, di, NumSources)
                 /\ UNCHANGED <<dpc, version, assetName>>
            ELSE /\ version' = ReleaseToUse(answer).version
                 /\ assetName' = ReleaseToUse(answer).asset
                 /\ dpc' = "request"
                 /\ di' = 1
    /\ UNCHANGED <<lifeVars, selVars, parseVars, enVars, atCall, gsi, geoErr, binary, goos, goarch,
                   tmpZip, tmpBin, geoFiles, geoTmp, gi, lastErr, dlLog,
                   geoLog, dret>>

\* the attempt on source di has returned err (lines 85-93)
AttemptReturns(err) ==
    /\ dlLog' = SetLast(IF dpc = "request"
                        THEN Append(dlLog, [src |-> di, version |-> version,
                                            asset |-> assetName, result |-> Pending])
                        ELSE dlLog, err)
    /\ lastErr' = LastErrAfter(lastErr, err)
    /\ IF AfterAttempt(err, di, NumSources) # 0
       THEN /\ di' = AfterAttempt(err, di, NumSources)
            /\ dpc' = "request"
       ELSE /\ di' = di
            /\ dpc' = "after_loop"

\* downloadFromURL, lines 218-233: the request and the creation of the zip
Request ==
    /\ dpc = "request"
    /\ \/ /\ \E why \in {"request failed", "HTTP 404", "failed to create temp file"} :
               AttemptReturns(Err(di, why))
          /\ UNCHANGED tmpZip
       \/ /\ tmpZip' = "partial"
          /\ dlLog' = Append(dlLog, [src |-> di, version |-> version,
                                     asset |-> assetName, result |-> Pending])
          /\ dpc' = "zip_copy"
          /\ UNCHANGED <<di, lastErr>>
    /\ UNCHANGED <<lifeVars, selVars, parseVars, enVars, atCall, gsi, geoErr, binary, goos, goarch,
                   tmpBin, geoFiles, geoTmp, gi, version, assetName, apiLog,
                   geoLog, dret>>

\* downloadFromURL, lines 235-241: the body is copied into the zip
ZipCopy ==
    /\ dpc = "zip_copy"
    /\ \/ /\ tmpZip' = "absent"
          /\ AttemptReturns(Err(di, "failed to save file"))
       \/ /\ tmpZip' = "complete"
          /\ dpc' = "extract"
          /\ UNCHANGED <<di, lastErr, dlLog>>
    /\ UNCHANGED <<lifeVars, selVars, parseVars, enVars, atCall, gsi, geoErr, binary, goos, goarch,
                   tmpBin, geoFiles, geoTmp, gi, version, assetName, apiLog,
                   geoLog, dret>>

ZipKeptAfterExtractError(zip) == zip

\* what downloadFromURL does with the zip when extractXrayFromZip failed
\* (line 245)
ZipAfterExtractError(zip) == "absent"

\* extractXrayFromZip, lines 257-289: the archive is opened, the binary is
\* found in it and the destination x.xrayPath + ".tmp" is created
ExtractOpen ==
    /\ dpc = "extract"
    /\ \/ /\ \E why \in {"failed to open zip", "xray binary not found in zip",
                        "failed to open file in zip",
                        "failed to create destination file"} :
               AttemptReturns(Err(di, why))
          /\ tmpZip' = ZipAfterExtractError(tmpZip)
          /\ UNCHANGED tmpBin
       \/ /\ tmpBin' = "partial"
          /\ dpc' = "bin_copy"
          /\ UNCHANGED <<di, lastErr, dlLog, tmpZip>>
    /\ UNCHANGED <<lifeVars, selVars, parseVars, enVars, atCall, gsi, geoErr, binary, goos, goarch,
                   geoFiles, geoTmp, gi, version, assetName, apiLog, geoLog,
                   dret>>

\* extractXrayFromZip, lines 291-297: the binary is copied out of the archive
BinCopyUnchecked ==
    /\ dpc = "bin_copy"
    /\ tmpBin' \in {"partial", "complete"}
    /\ dpc' = "rename"
    /\ UNCHANGED <<di, lastErr, dlLog, tmpZip>>
    /\ UNCHANGED <<lifeVars, selVars, parseVars, enVars, atCall, gsi, geoErr, binary, goos, goarch,
                   geoFiles, geoTmp, gi, version, assetName, apiLog, geoLog,
                   dret>>
BinCopy ==
    /\ dpc = "bin_copy"
    /\ \/ /\ tmpBin' = "absent"
          /\ tmpZip' = ZipAfterExtractError(tmpZip)
          /\ AttemptReturns(Err(di, "failed to copy file"))
       \/ /\ tmpBin' = "complete"
          /\ dpc' = "rename"
          /\ UNCHANGED <<di, lastErr, dlLog, tmpZip>>
    /\ UNCHANGED <<lifeVars, selVars, parseVars, enVars, atCall, gsi, geoErr, binary, goos, goarch,
                   geoFiles, geoTmp, gi, version, assetName, apiLog, geoLog,
                   dret>>

\* extractXrayFromZip, lines 299-305: os.Rename into place
Rename ==
    /\ dpc = "rename"
    /\ \/ /\ tmpBin' = "absent"
          /\ tmpZip' = ZipAfterExtractError(tmpZip)
          /\ AttemptReturns(Err(di, "failed to move to final location"))
          /\ UNCHANGED binary
       \/ /\ binary' = tmpBin
          /\ tmpBin' = "absent"
          /\ dpc' = "cleanup"
          /\ UNCHANGED <<di, lastErr, dlLog, tmpZip>>
    /\ UNCHANGED <<lifeVars, selVars, parseVars, enVars, atCall, gsi, geoErr, goos, goarch, geoFiles,
                   geoTmp, gi, version, assetName, apiLog, geoLog, dret>>

\* downloadFromURL, lines 249-252: the zip is removed, the attempt succeeded
Cleanup ==
    /\ dpc = "cleanup"
    /\ tmpZip' = "absent"
    /\ AttemptReturns(NoErr)
    /\ UNCHANGED <<lifeVars, selVars, parseVars, enVars, atCall, gsi, geoErr, binary, goos, goarch,
                   tmpBin, geoFiles, geoTmp, gi, version, assetName, apiLog,
                   geoLog, dret>>

\* Download, lines 95-98
AfterLoop ==
    /\ dpc = "after_loop"
    /\ IF DownloadLoopResult(lastErr).done
       THEN /\ dret' = DownloadLoopResult(lastErr)
            /\ dpc' = "done"
            /\ UNCHANGED gi
       ELSE /\ dpc' = "geo_file"
            /\ gi' = 1
            /\ UNCHANGED dret
    /\ UNCHANGED <<lifeVars, selVars, parseVars, enVars, atCall, gsi, geoErr, binary, goos, goarch,
                   tmpZip, tmpBin, geoFiles, geoTmp, di, version, assetName,
                   lastErr, apiLog, dlLog, geoLog>>

(***************************************************************************)
(* downloadGeoData and the end of Download                                 *)
(***************************************************************************)
\* the next file, or the return of downloadGeoData and of Download
\* (lines 102-107: an error of downloadGeoData is only printed)
GeoNextFile(err) ==
    IF err = NoErr /\ gi < Len(geoNames)
    THEN /\ gi' = gi + 1
         /\ dpc' = "geo_file"
         /\ UNCHANGED dret
    ELSE /\ dret' = Returned(NoErr, err)
         /\ dpc' = "done"
         /\ UNCHANGED gi

\* downloadGeoData, lines 138-150: a file that exists is skipped
GeoFile ==
    /\ dpc = "geo_file"
    /\ IF geoFiles[gi] # "absent"
       THEN /\ GeoNextFile(NoErr)
            /\ UNCHANGED <<gsi, geoErr>>
       ELSE /\ gsi' = 1
            /\ geoErr' = NoErr
            /\ dpc' = "geo_request"
            /\ UNCHANGED <<gi, dret>>
    /\ UNCHANGED <<lifeVars, selVars, parseVars, enVars, atCall, binary, goos, goarch, tmpZip, tmpBin, geoFiles,
                   geoTmp, di, version, assetName, lastErr, apiLog, dlLog, geoLog>>

\* the attempt on source gsi of file gi has returned err (lines 154-162)
GeoAttemptReturns(err) ==
    /\ geoLog' = SetLast(IF dpc = "geo_request"
                         THEN Append(geoLog, [file |-> gi, src |-> gsi, result |-> Pending])
                         ELSE geoLog, err)
    /\ geoErr' = LastErrAfter(geoErr, err)
    /\ IF AfterAttempt(err, gsi, NumGeoSources) # 0
       THEN /\ gsi' = AfterAttempt(err, gsi, NumGeoSources)
            /\ dpc' = "geo_request"
       ELSE /\ gsi' = gsi
            /\ dpc' = "geo_after"

\* downloadGeoFile, lines 178-193
GeoRequest ==
    /\ dpc = "geo_request"
    /\ \/ /\ \E why \in {"request failed", "HTTP 404", "failed to create temp file"} :
               GeoAttemptReturns(Err(gsi, why))
          /\ UNCHANGED geoTmp
       \/ /\ geoTmp' = [geoTmp EXCEPT ![gi] = "partial"]
          /\ geoLog' = Append(geoLog, [file |-> gi, src |-> gsi, result |-> Pending])
          /\ dpc' = "geo_copy"
          /\ UNCHANGED <<gsi, geoErr>>
    /\ UNCHANGED <<lifeVars, selVars, parseVars, enVars, atCall, binary, goos, goarch, tmpZip, tmpBin, geoFiles,
                   di, gi, version, assetName, lastErr, apiLog, dlLog, dret>>

\* downloadGeoFile, lines 195-201
GeoCopy ==
    /\ dpc = "geo_copy"
    /\ \/ /\ geoTmp' = [geoTmp EXCEPT ![gi] = "absent"]
          /\ GeoAttemptReturns(Err(gsi, "failed to save file"))
       \/ /\ geoTmp' = [geoTmp EXCEPT ![gi] = "complete"]
          /\ dpc' = "geo_rename"
          /\ UNCHANGED <<gsi, geoErr, geoLog>>
    /\ UNCHANGED <<lifeVars, selVars, parseVars, enVars, atCall, binary, goos, goarch, tmpZip, tmpBin, geoFiles,
                   di, gi, version, assetName, lastErr, apiLog, dlLog, dret>>

\* downloadGeoFile, lines 203-209
GeoRename ==
    /\ dpc = "geo_rename"
    /\ \/ /\ geoTmp' = [geoTmp EXCEPT ![gi] = "absent"]
          /\ GeoAttemptReturns(Err(gsi, "failed to move to final location"))
          /\ UNCHANGED geoFiles
       \/ /\ geoFiles' = [geoFiles EXCEPT ![gi] = geoTmp[gi]]
          /\ geoTmp' = [geoTmp EXCEPT ![gi] = "absent"]
          /\ GeoAttemptReturns(NoErr)
    /\ UNCHANGED <<lifeVars, selVars, parseVars, enVars, atCall, binary, goos, goarch, tmpZip, tmpBin,
                   di, gi, version, assetName, lastErr, apiLog, dlLog, dret>>

\* downloadGeoData, lines 164-169
GeoAfter ==
    /\ dpc = "geo_after"
    /\ GeoNextFile(geoErr)
    /\ UNCHANGED <<lifeVars, selVars, parseVars, enVars, atCall, binary, goos, goarch, tmpZip, tmpBin, geoFiles,
                   geoTmp, di, gsi, geoErr, version, assetName, lastErr, apiLog, dlLog,
                   geoLog>>

NextDownload ==
    \/ DownloadBegin
    \/ Discover
    \/ Request
    \/ ZipCopy
    \/ ExtractOpen
    \/ BinCopy
    \/ Rename
    \/ Cleanup
    \/ AfterLoop
    \/ GeoFile
    \/ GeoRequest
    \/ GeoCopy
    \/ GeoRename
    \/ GeoAfter

(***************************************************************************)
(* SelectFastestNode                                                       *)
(***************************************************************************)
\* int(^uint(0) >> 1) where int has 32 bits
MaxInt == 2147483647

\* elapsed milliseconds a successful dial can measure
Latencies == {0, 10, 50}

\* what net.DialTimeout can do: fail, or connect after ms milliseconds
DialOutcomes ==
    {[ok |-> FALSE, ms |-> 0]} \cup {[ok |-> TRUE, ms |-> l] : l \in Latencies}

NotDialled == [ok |-> FALSE, ms |-> -1]

\* Node.TestLatency: the error returned and the Latency recorded
TestLatency(dial) ==
    IF ~dial.ok THEN [err |-> TRUE, Latency |-> -1]
    ELSE [err |-> FALSE, Latency |-> dial.ms]

IsFasterOrEqual(latency, min) == latency >= 0 /\ latency <= min

IsFasterPositive(latency, min) == latency > 0 /\ latency < min

\* line 395
IsFaster(latency, min) == latency >= 0 /\ latency < min

\* lines 401-405
SelectResult(fastest) ==
    IF fastest = 0 THEN [done |-> TRUE, err |-> "no reachable nodes found", node |-> 0]
    ELSE [done |-> TRUE, err |-> "nil", node |-> fastest]

SelInit ==
    /\ si = 0
    /\ minLatency = 0
    /\ fastestNode = 0
    /\ spc = "idle"
    /\ sret = [done |-> FALSE, err |-> "nil", node |-> 0]

\* lines 383-388
SelectBegin ==
    /\ spc = "idle"
    /\ IF Len(nodes) = 0
       THEN /\ sret' = [done |-> TRUE, err |-> "no nodes available", node |-> 0]
            /\ spc' = "done"
            /\ UNCHANGED <<si, minLatency, fastestNode>>
       ELSE /\ fastestNode' = 0
            /\ minLatency' = MaxInt
            /\ si' = 1
            /\ spc' = "loop"
            /\ UNCHANGED sret
    /\ UNCHANGED <<lifeVars, dlVars, parseVars, enVars, binary, nodes>>

\* lines 390-399: one iteration
SelectProbe ==
    /\ spc = "loop"
    /\ si <= Len(nodes)
    /\ \E dial \in DialOutcomes :
         LET t == TestLatency(dial) IN
         /\ nodes' = [nodes EXCEPT ![si] = [Latency |-> t.Latency, dial |-> dial]]
         /\ IF ~t.err /\ IsFaster(t.Latency, minLatency)
            THEN /\ minLatency' = t.Latency
                 /\ fastestNode' = si
            ELSE UNCHANGED <<minLatency, fastestNode>>
    /\ si' = si + 1
    /\ UNCHANGED <<lifeVars, dlVars, parseVars, enVars, binary, spc, sret>>

\* lines 401-405
SelectEnd ==
    /\ spc = "loop"
    /\ si > Len(nodes)
    /\ sret' = SelectResult(fastestNode)
    /\ spc' = "done"
    /\ UNCHANGED <<lifeVars, dlVars, parseVars, enVars, binary, nodes, si, minLatency, fastestNode>>

NextSelect ==
    \/ SelectBegin
    \/ SelectProbe
    \/ SelectEnd

(***************************************************************************)
(* Subscription parser (internal/proxy/subscription.go).                   *)
(*                                                                         *)
(* A Go string is a sequence of tokens: a token is a separator ("\n", "@", *)
(* ":", "?", "#", "&", "="), a blank, a digit, a scheme prefix             *)
(* ("vmess://"), or a word that contains none of these (a host name, a     *)
(* password, a base64 payload).  The string functions work on tokens the   *)
(* way the library works on bytes.  "" is the empty sequence.              *)
(***************************************************************************)
Space == {" ", "\t", "\r"}

RECURSIVE TrimLeft(_)
TrimLeft(s) == IF s # <<>> /\ Head(s) \in Space THEN TrimLeft(Tail(s)) ELSE s

RECURSIVE TrimRight(_)
TrimRight(s) ==
    IF s # <<>> /\ s[Len(s)] \in Space THEN TrimRight(SubSeq(s, 1, Len(s) - 1)) ELSE s

\* strings.TrimSpace
TrimSpace(s) == TrimRight(TrimLeft(s))

\* strings.Index: position of the first sep, 0 when there is none
Index(s, sep) ==
    IF \E k \in 1..Len(s) : s[k] = sep
    THEN CHOOSE k \in 1..Len(s) : s[k] = sep /\ \A j \in 1..(k - 1) : s[j] # sep
    ELSE 0

\* strings.Contains
Contains(s, tok) == Index(s, tok) # 0

\* strings.SplitN(s, sep, 2)
SplitN2(s, sep) ==
    IF Index(s, sep) = 0
    THEN <<s>>
    ELSE <<SubSeq(s, 1, Index(s, sep) - 1), SubSeq(s, Index(s, sep) + 1, Len(s))>>

\* strings.Split
RECURSIVE Split(_, _)
Split(s, sep) ==
    IF Index(s, sep) = 0
    THEN <<s>>
    ELSE <<SubSeq(s, 1, Index(s, sep) - 1)>>
         \o Split(SubSeq(s, Index(s, sep) + 1, Len(s)), sep)

\* strings.HasPrefix and strings.TrimPrefix for a scheme prefix
HasPrefix(s, prefix) == s # <<>> /\ Head(s) = prefix
TrimPrefix(s, prefix) == IF HasPrefix(s, prefix) THEN Tail(s) ELSE s

DigitValue ==
    [c \in {"0", "1", "2", "3", "4", "5", "6", "7", "8", "9"} |->
       CASE c = "0" -> 0 [] c = "1" -> 1 [] c = "2" -> 2 [] c = "3" -> 3
         [] c = "4" -> 4 [] c = "5" -> 5 [] c = "6" -> 6 [] c = "7" -> 7
         [] c = "8" -> 8 [] c = "9" -> 9]

RECURSIVE ScanNumber(_, _)
ScanNumber(s, acc) ==
    IF s # <<>> /\ Head(s) \in DOMAIN DigitValue
    THEN ScanNumber(Tail(s), acc * 10 + DigitValue[Head(s)])
    ELSE acc

\* port := 0; fmt.Sscanf(text, "%d", &port), the error discarded: an optional
\* sign and the leading digits; with no digit nothing is stored
SscanfPort(s) ==
    IF s # <<>> /\ Head(s) = "-" THEN 0 - ScanNumber(Tail(s), 0)
    ELSE IF s # <<>> /\ Head(s) = "+" THEN ScanNumber(Tail(s), 0)
    ELSE ScanNumber(s, 0)

\* name, _ = url.QueryUnescape(text): "+" becomes a blank; a "%" that does
\* not start an escape is an error, and the name is then ""
QueryUnescape(s) ==
    IF Contains(s, "%") THEN <<>>
    ELSE [k \in 1..Len(s) |-> IF s[k] = "+" THEN " " ELSE s[k]]

\* url.ParseQuery and params[key]: the value of the first key=value pair
ParamValue(query, key) ==
    LET at == {k \in 1..Len(query) :
                 /\ query[k] = key
                 /\ k = 1 \/ query[k - 1] = "&"
                 /\ k < Len(query) /\ query[k + 1] = "="}
        first == CHOOSE k \in at : \A j \in at : k <= j
    IN IF at = {} THEN <<>>
       ELSE IF first + 2 <= Len(query) /\ query[first + 2] # "&"
       THEN <<query[first + 2]>>
       ELSE <<>>

Decoded(bytes) == [ok |-> TRUE, bytes |-> bytes]
CorruptInput == [ok |-> FALSE, bytes |-> <<>>]

\* base64.StdEncoding.DecodeString, on the payloads of the documents below
StdEncodingDecode(s) ==
    IF s = <<>> THEN Decoded(<<>>)
    ELSE IF Len(s) # 1 THEN CorruptInput
    ELSE CASE s[1] = "eyJwcyI6Im4iLCJhZGQiOiJoIiwicG9ydCI6NDQzLCJpZCI6InUiLCJuZXQiOiJ3cyIsInRscyI6InRscyJ9"
                -> Decoded(<<"{\"ps\":\"n\",\"add\":\"h\",\"port\":443,\"id\":\"u\",\"net\":\"ws\",\"tls\":\"tls\"}">>)
           [] s[1] = "e30="
                -> Decoded(<<"{}">>)
           [] s[1] = "eyJhZGQiOiJoIiwicG9ydCI6IjQ0MyIsImlkIjoidSJ9"
                -> Decoded(<<"{\"add\":\"h\",\"port\":\"443\",\"id\":\"u\"}">>)
           [] s[1] = "YWVzLTI1Ni1nY206cHc="
                -> Decoded(<<"aes-256-gcm", ":", "pw">>)
           [] OTHER -> CorruptInput

\* base64.URLEncoding.DecodeString: the alphabet with "-" and "_"
URLEncodingDecode(s) ==
    IF s = <<"Y2hhY2hhMjA6cD4_">> THEN Decoded(<<"chacha20", ":", "p>?">>)
    ELSE StdEncodingDecode(s)

\* a value of the map json.Unmarshal fills: missing, a string or a number
JAbsent == [kind |-> "absent", str |-> <<>>, num |-> 0]
JString(s) == [kind |-> "string", str |-> s, num |-> 0]
JNumber(n) == [kind |-> "number", str |-> <<>>, num |-> n]
JObject(ps, add, port, id, net, tls) ==
    [ok |-> TRUE, ps |-> ps, add |-> add, port |-> port, id |-> id, net |-> net,
     tls |-> tls]
JSyntaxError ==
    [ok |-> FALSE, ps |-> JAbsent, add |-> JAbsent, port |-> JAbsent, id |-> JAbsent,
     net |-> JAbsent, tls |-> JAbsent]

\* json.Unmarshal(decoded, &vmessConfig)
JsonUnmarshal(bytes) ==
    IF bytes = <<"{\"ps\":\"n\",\"add\":\"h\",\"port\":443,\"id\":\"u\",\"net\":\"ws\",\"tls\":\"tls\"}">>
    THEN JObject(JString(<<"n">>), JString(<<"h">>), JNumber(443), JString(<<"u">>),
                 JString(<<"ws">>), JString(<<"tls">>))
    ELSE IF bytes = <<"{}">>
    THEN JObject(JAbsent, JAbsent, JAbsent, JAbsent, JAbsent, JAbsent)
    ELSE IF bytes = <<"{\"add\":\"h\",\"port\":\"443\",\"id\":\"u\"}">>
    THEN JObject(JAbsent, JString(<<"h">>), JString(<<"4", "4", "3">>), JString(<<"u">>),
                 JAbsent, JAbsent)
    ELSE JSyntaxError

\* v, ok := vmessConfig[key].(string) and .(float64): the zero value stays
\* when the key is missing or holds another type
AsString(v) == IF v.kind = "string" THEN v.str ELSE <<>>
AsInt(v) == IF v.kind = "number" THEN v.num ELSE 0

\* Node (lines 19-31); Node{} is the zero value
ZeroNode ==
    [Name |-> <<>>, Type |-> "", Server |-> <<>>, Port |-> 0, UUID |-> <<>>,
     Password |-> <<>>, Network |-> <<>>, Security |-> <<>>, TLS |-> <<>>,
     SNI |-> <<>>]

NodeOk(node) == [ok |-> TRUE, node |-> node]
NodeErr == [ok |-> FALSE, node |-> ZeroNode]

\* the part before and after "#", and the part before "?"
WithoutName(s) == IF Len(SplitN2(s, "#")) = 2 THEN SplitN2(s, "#")[1] ELSE s
NameOf(s) == IF Len(SplitN2(s, "#")) = 2 THEN QueryUnescape(SplitN2(s, "#")[2]) ELSE <<>>
WithoutQuery(s) == IF Len(SplitN2(s, "?")) = 2 THEN SplitN2(s, "?")[1] ELSE s
QueryOf(s) == IF Len(SplitN2(s, "?")) = 2 THEN SplitN2(s, "?")[2] ELSE <<>>

parseVMessURL(vmessURL) ==
    LET decoded == StdEncodingDecode(TrimPrefix(vmessURL, "vmess://"))
        vmessConfig == JsonUnmarshal(decoded.bytes)
    IN IF ~decoded.ok THEN NodeErr
       ELSE IF ~vmessConfig.ok THEN NodeErr
       ELSE NodeOk([ZeroNode EXCEPT !.Type = "vmess",
                                    !.Name = AsString(vmessConfig.ps),
                                    !.Server = AsString(vmessConfig.add),
                                    !.Port = AsInt(vmessConfig.port),
                                    !.UUID = AsString(vmessConfig.id),
                                    !.Network = AsString(vmessConfig.net),
                                    !.TLS = AsString(vmessConfig.tls)])

parseVLessURL(vlessURL) ==
    LET url == TrimPrefix(vlessURL, "vless://")
        parts == SplitN2(WithoutQuery(WithoutName(url)), "@")
        serverPort == SplitN2(parts[2], ":")
        params == QueryOf(WithoutName(url))
    IN IF Len(parts) # 2 THEN NodeErr
       ELSE IF Len(serverPort) # 2 THEN NodeErr
       ELSE NodeOk([ZeroNode EXCEPT !.Type = "vless",
                                    !.Name = NameOf(url),
                                    !.Server = serverPort[1],
                                    !.Port = SscanfPort(serverPort[2]),
                                    !.UUID = parts[1],
                                    !.Network = ParamValue(params, "type"),
                                    !.Security = ParamValue(params, "security")])

parseTrojanURL(trojanURL) ==
    LET url == TrimPrefix(trojanURL, "trojan://")
        parts == SplitN2(WithoutQuery(WithoutName(url)), "@")
        serverPort == SplitN2(parts[2], ":")
    IN IF Len(parts) # 2 THEN NodeErr
       ELSE IF Len(serverPort) # 2 THEN NodeErr
       ELSE NodeOk([ZeroNode EXCEPT !.Type = "trojan",
                                    !.Name = NameOf(url),
                                    !.Server = serverPort[1],
                                    !.Port = SscanfPort(serverPort[2]),
                                    !.Password = parts[1]])

parseShadowsocksURL(ssURL) ==
    LET url == TrimPrefix(ssURL, "ss://")
        parts == SplitN2(WithoutName(url), "@")
        decoded == IF StdEncodingDecode(parts[1]).ok
                   THEN StdEncodingDecode(parts[1])
                   ELSE URLEncodingDecode(parts[1])
        credentials == SplitN2(decoded.bytes, ":")
        serverPort == SplitN2(parts[2], ":")
    IN IF Len(parts) # 2 THEN NodeErr
       ELSE IF ~decoded.ok THEN NodeErr
       ELSE IF Len(credentials) # 2 THEN NodeErr
       ELSE IF Len(serverPort) # 2 THEN NodeErr
       ELSE NodeOk([ZeroNode EXCEPT !.Type = "ss",
                                    !.Name = NameOf(url),
                                    !.Server = serverPort[1],
                                    !.Port = SscanfPort(serverPort[2]),
                                    !.Password = credentials[2],
                                    !.Security = credentials[1]])

\* parseSubscription, lines 139-159: one trimmed, non-empty line
ParseLine(line) ==
    IF HasPrefix(line, "vmess://") THEN parseVMessURL(line)
    ELSE IF HasPrefix(line, "vless://") THEN parseVLessURL(line)
    ELSE IF HasPrefix(line, "trojan://") THEN parseTrojanURL(line)
    ELSE IF HasPrefix(line, "ss://") THEN parseShadowsocksURL(line)
    ELSE NodeErr

\* parseSubscription, lines 132-160: the loop over the lines
RECURSIVE ParseLines(_)
ParseLines(lines) ==
    IF lines = <<>> THEN <<>>
    ELSE IF TrimSpace(Head(lines)) # <<>> /\ ParseLine(TrimSpace(Head(lines))).ok
    THEN <<ParseLine(TrimSpace(Head(lines))).node>> \o ParseLines(Tail(lines))
    ELSE ParseLines(Tail(lines))

ParseOk(ns) == [err |-> "", nodes |-> ns]
ParseErr(why) == [err |-> why, nodes |-> <<>>]

\* parseSubscription, line 162
NoValidNodesNever(ns) == FALSE
NoValidNodes(ns) == Len(ns) = 0

\* parseSubscription, lines 128-166: the text read as a list of links
ParseURLFormat(text) ==
    IF NoValidNodes(ParseLines(Split(text, "\n")))
    THEN ParseErr("no valid nodes found in subscription")
    ELSE ParseOk(ParseLines(Split(text, "\n")))

\* parseYAMLSubscription, line 422: an entry without server or port
SkipProxyWithoutServer(proxy) == proxy.Server = <<>>
SkipProxy(proxy) == proxy.Server = <<>> \/ proxy.Port = 0

\* parseYAMLSubscription, lines 426-451
YAMLNode(proxy) ==
    LET node == [ZeroNode EXCEPT !.Name = proxy.Name, !.Type = proxy.Type,
                                 !.Server = proxy.Server, !.Port = proxy.Port]
    IN IF proxy.Type = "trojan"
       THEN [node EXCEPT !.Password = proxy.Password,
                         !.SNI = IF proxy.SNI = <<>> THEN proxy.Server ELSE proxy.SNI]
       ELSE IF proxy.Type \in {"vmess", "vless"}
       THEN [node EXCEPT !.UUID = proxy.UUID, !.Network = proxy.Network]
       ELSE IF proxy.Type \in {"ss", "shadowsocks"}
       THEN [node EXCEPT !.Password = proxy.Password, !.Security = proxy.Cipher]
       ELSE node

\* parseYAMLSubscription, lines 419-454: the loop over config.Proxies
RECURSIVE YAMLNodes(_)
YAMLNodes(proxies) ==
    IF proxies = <<>> THEN <<>>
    ELSE IF SkipProxy(Head(proxies)) THEN YAMLNodes(Tail(proxies))
    ELSE <<YAMLNode(Head(proxies))>> \o YAMLNodes(Tail(proxies))

\* parseYAMLSubscription; c.yaml is what yaml.Unmarshal makes of c.text
parseYAMLSubscription(c) ==
    IF c.yaml.err THEN ParseErr("failed to parse YAML")
    ELSE IF Len(c.yaml.proxies) = 0 THEN ParseErr("no proxies found in YAML")
    ELSE IF Len(YAMLNodes(c.yaml.proxies)) = 0 THEN ParseErr("no valid proxy nodes found")
    ELSE ParseOk(YAMLNodes(c.yaml.proxies))

\* parseSubscription, line 120
LooksLikeYAML(text) == Contains(text, "proxies:") \/ Contains(text, "- {name:")

\* parseSubscription, line 122
YAMLAcceptedAlways(r) == TRUE
YAMLAccepted(r) == r.err = "" /\ Len(r.nodes) > 0

parseSubscription(c) ==
    IF LooksLikeYAML(c.text) /\ YAMLAccepted(parseYAMLSubscription(c))
    THEN ParseOk(parseYAMLSubscription(c).nodes)
    ELSE ParseURLFormat(c.text)

NotParsed == [done |-> FALSE, fn |-> "", err |-> "", nodes |-> <<>>]
ParseReturned(fn, r) == [done |-> TRUE, fn |-> fn, err |-> r.err, nodes |-> r.nodes]

\* FetchSubscription: c.text is the body after the base64 step of lines 99-103
FetchSubscription ==
    /\ ~pret.done
    /\ \/ \E why \in {"failed to fetch subscription", "subscription returned status",
                      "failed to read subscription data"} :
            pret' = ParseReturned("FetchSubscription", ParseErr(why))
       \/ pret' = ParseReturned("FetchSubscription", parseSubscription(content))
    /\ UNCHANGED <<binary, lifeVars, dlVars, selVars, enVars, content>>

LoadFromFile ==
    /\ ~pret.done
    /\ \/ pret' = ParseReturned("LoadFromFile", ParseErr("failed to read file"))
       \/ pret' = ParseReturned("LoadFromFile", parseYAMLSubscription(content))
    /\ UNCHANGED <<binary, lifeVars, dlVars, selVars, enVars, content>>

NextParse ==
    \/ FetchSubscription
    \/ LoadFromFile

(***************************************************************************)
(* Subscription documents                                                  *)
(***************************************************************************)
SampleLines ==
    { <<"vmess://", "eyJwcyI6Im4iLCJhZGQiOiJoIiwicG9ydCI6NDQzLCJpZCI6InUiLCJuZXQiOiJ3cyIsInRscyI6InRscyJ9">>,
      <<"vmess://", "e30=">>,
      <<"vmess://", "eyJhZGQiOiJoIiwicG9ydCI6IjQ0MyIsImlkIjoidSJ9">>,
      <<" ", "vless://", "u", "@", "v", ":", "4", "4", "3", "?", "type", "=", "ws",
        "#", "n", "+", "1", "\r">>,
      <<"vless://", "u", "@", ":", "4", "4", "3">>,
      <<"trojan://", "p", "@", "t", ":", "x">>,
      <<"trojan://", "p", "@", "t", ":", "7", "0", "0", "0", "0">>,
      <<"trojan://", "p", "@", "t">>,
      <<"ss://", "YWVzLTI1Ni1nY206cHc=", "@", "s", ":", "8", "3", "8", "8">>,
      <<"proxies:">>,
      <<>> }

YAMLProxy(name, type, server, port) ==
    [Name |-> name, Type |-> type, Server |-> server, Port |-> port,
     Password |-> IF type \in {"trojan", "ss", "shadowsocks"} THEN <<"p">> ELSE <<>>,
     UUID |-> IF type \in {"vmess", "vless"} THEN <<"u">> ELSE <<>>,
     Cipher |-> IF type \in {"ss", "shadowsocks"} THEN <<"aes-256-gcm">> ELSE <<>>,
     SNI |-> <<>>, Network |-> <<>>]

SampleProxies ==
    { YAMLProxy(<<"a">>, "trojan", <<"t">>, 443),
      YAMLProxy(<<"b">>, "shadowsocks", <<"s">>, 8388),
      YAMLProxy(<<"c">>, "vmess", <<"v">>, 70000),
      YAMLProxy(<<"traffic">>, "ss", <<"s">>, 0),
      YAMLProxy(<<"expires">>, "ss", <<>>, 8388) }

SeqsUpTo(S, n) == UNION {[1..k -> S] : k \in 0..n}

RECURSIVE JoinLines(_)
JoinLines(lines) ==
    IF lines = <<>> THEN <<>>
    ELSE IF Len(lines) = 1 THEN Head(lines)
    ELSE Head(lines) \o <<"\n">> \o JoinLines(Tail(lines))

YAMLFailure == [err |-> TRUE, proxies |-> <<>>]
YAMLDocument(proxies) == [err |-> FALSE, proxies |-> proxies]

\* the text of a Clash file: the key, then one flow mapping per proxy
RECURSIVE YAMLText(_)
YAMLText(proxies) ==
    IF proxies = <<>> THEN <<"proxies:">>
    ELSE YAMLText(SubSeq(proxies, 1, Len(proxies) - 1))
         \o <<"\n", " ", " ", "- {name:", proxies[Len(proxies)].Type, "}">>

\* a list of links with what a YAML decoder can make of such a text, or a
\* Clash file
ParseInit ==
    /\ \/ \E lines \in SeqsUpTo(SampleLines, MaxLines) :
          \E yaml \in {YAMLFailure, YAMLDocument(<<>>),
                       YAMLDocument(<<YAMLProxy(<<"traffic">>, "ss", <<"s">>, 0)>>),
                       YAMLDocument(<<YAMLProxy(<<"a">>, "trojan", <<"t">>, 443),
                                      YAMLProxy(<<"b">>, "shadowsocks", <<"s">>, 8388)>>)} :
            content = [text |-> JoinLines(lines), yaml |-> yaml]
       \/ \E proxies \in SeqsUpTo(SampleProxies, MaxProxies) :
            content = [text |-> YAMLText(proxies), yaml |-> YAMLDocument(proxies)]
    /\ pret = NotParsed

(***************************************************************************)
(* GenerateConfig (internal/proxy/xray.go).  A config is the map that is   *)
(* marshalled into config.json; the file holds the map that was written.   *)
(***************************************************************************)
LocalPort == 1080           \* x.localPort

generateRoutingRulesDomainFirst ==
    [domainStrategy |-> "IPIfNonMatch",
     rules |-> << [type |-> "field", domain |-> <<"geosite:cn">>, outboundTag |-> "direct"],
                  [type |-> "field", ip |-> <<"geoip:private">>, outboundTag |-> "direct"],
                  [type |-> "field", ip |-> <<"geoip:cn">>, outboundTag |-> "direct"] >>]
generateRoutingRules ==
    [domainStrategy |-> "IPIfNonMatch",
     rules |-> << [type |-> "field", ip |-> <<"geoip:private">>, outboundTag |-> "direct"],
                  [type |-> "field", ip |-> <<"geoip:cn">>, outboundTag |-> "direct"],
                  [type |-> "field", domain |-> <<"geosite:cn">>, outboundTag |-> "direct"] >>]

generateDirectOutbound ==
    [tag |-> "direct", protocol |-> "freedom", settings |-> <<>>]

generateVMessConfig(node) ==
    [inbounds |-> << [port |-> LocalPort, protocol |-> "socks",
                      settings |-> [udp |-> TRUE]] >>,
     outbounds |-> << [tag |-> "proxy", protocol |-> "vmess",
                       settings |->
                         [vnext |-> << [address |-> node.Server, port |-> node.Port,
                                        users |-> << [id |-> node.UUID, alterId |-> 0,
                                                      security |-> "auto"] >>] >>]],
                      generateDirectOutbound >>,
     routing |-> generateRoutingRules]

generateVLessConfig(node) ==
    [inbounds |-> << [port |-> LocalPort, protocol |-> "socks",
                      settings |-> [udp |-> TRUE]] >>,
     outbounds |-> << [tag |-> "proxy", protocol |-> "vless",
                       settings |->
                         [vnext |-> << [address |-> node.Server, port |-> node.Port,
                                        users |-> << [id |-> node.UUID,
                                                      encryption |-> "none"] >>] >>]],
                      generateDirectOutbound >>,
     routing |-> generateRoutingRules]

\* generateTrojanConfig, lines 595-598
TrojanSNIAsGiven(node) == node.SNI
TrojanSNI(node) == IF node.SNI = <<>> THEN node.Server ELSE node.SNI

generateTrojanConfig(node) ==
    [inbounds |-> << [port |-> LocalPort, protocol |-> "socks",
                      settings |-> [udp |-> TRUE]] >>,
     outbounds |-> << [tag |-> "proxy", protocol |-> "trojan",
                       settings |->
                         [servers |-> << [address |-> node.Server, port |-> node.Port,
                                          password |-> node.Password] >>],
                       streamSettings |->
                         [network |-> "tcp", security |-> "tls",
                          tlsSettings |->
                            [serverName |-> TrojanSNI(node),
                             allowInsecure |-> FALSE,
                             alpn |-> <<"h2", "http/1.1">>,
                             disableSystemRoot |-> FALSE,
                             enableSessionResumption |-> TRUE]]],
                      generateDirectOutbound >>,
     routing |-> generateRoutingRules]

generateShadowsocksConfig(node) ==
    [inbounds |-> << [port |-> LocalPort, protocol |-> "socks",
                      settings |-> [udp |-> TRUE]] >>,
     outbounds |-> << [tag |-> "proxy", protocol |-> "shadowsocks",
                       settings |->
                         [servers |-> << [address |-> node.Server, port |-> node.Port,
                                          method |-> node.Security,
                                          password |-> node.Password] >>]],
                      generateDirectOutbound >>,
     routing |-> generateRoutingRules]

\* what a config file holds when it is absent or was truncated
NoData ==
    [inbounds |-> <<>>, outbounds |-> <<>>,
     routing |-> [domainStrategy |-> "", rules |-> <<>>]]
NoConfigFile == [exists |-> FALSE, data |-> NoData]
ConfigFile(data) == [exists |-> TRUE, data |-> data]

\* GenerateConfig, lines 454-465: the switch on node.Type
SupportedTypesWithoutSS == {"vmess", "vless", "trojan"}
SupportedTypes == {"vmess", "vless", "trojan", "ss"}

BuildConfig(node) ==
    IF node.Type \notin SupportedTypes
    THEN [err |-> "unsupported node type", data |-> NoData]
    ELSE [err |-> "",
          data |-> CASE node.Type = "vmess" -> generateVMessConfig(node)
                     [] node.Type = "vless" -> generateVLessConfig(node)
                     [] node.Type = "trojan" -> generateTrojanConfig(node)
                     [] node.Type = "ss" -> generateShadowsocksConfig(node)]

\* GenerateConfig, line 473: os.WriteFile(x.configPath, data, 0644) writes
\* the file, or cannot open it (left as it was), or truncates it and fails
WriteConfigFile(old, data, outcome) ==
    CASE outcome = "ok" -> ConfigFile(data)
      [] outcome = "open error" -> old
      [] outcome = "write error" -> ConfigFile(NoData)

\* GenerateConfig: the error returned and the file left behind
GenerateConfig(node, old, outcome) ==
    IF BuildConfig(node).err # ""
    THEN [err |-> BuildConfig(node).err, file |-> old]
    ELSE [err |-> IF outcome = "ok" THEN "" ELSE "failed to write config",
          file |-> WriteConfigFile(old, BuildConfig(node).data, outcome)]

(***************************************************************************)
(* Manager.EnableProxy (internal/accelerator/manager.go), one step per     *)
(* call it makes.  Download and SelectFastestNode appear with their        *)
(* results only (their runs are SpecDownload and SpecSelect);              *)
(* FetchSubscription, GenerateConfig and Start are the definitions above.  *)
(***************************************************************************)
NoCall ==
    [m |-> 0, node |-> ZeroNode, steps |-> <<>>, spawns0 |-> 0, saved0 |-> <<>>,
     config0 |-> NoConfigFile]
EnableNotReturned == [done |-> FALSE, err |-> ""]
EnableReturned(err) == [done |-> TRUE, err |-> err]

\* the step has returned err: EnableProxy returns it or goes on
EnableStep(step, err, next) ==
    /\ ecall' = [ecall EXCEPT !.steps = Append(@, [step |-> step, err |-> err])]
    /\ IF err # ""
       THEN /\ eret' = EnableReturned(err)
            /\ epc' = "idle"
       ELSE /\ eret' = eret
            /\ epc' = next

\* EnableProxy, lines 258-265
EnableBegin ==
    /\ epc = "idle"
    /\ calls < MaxCalls
    /\ calls' = calls + 1
    /\ \E m \in Managers :
         /\ pc[m] = "idle"
         /\ ecall' = [NoCall EXCEPT !.m = m, !.spawns0 = spawns, !.saved0 = savedNode,
                                    !.config0 = configFile]
    /\ \E enabled \in BOOLEAN, subscriptionURL \in {<<>>, <<"https://sub">>} :
         IF ~enabled
         THEN eret' = EnableReturned("proxy is not enabled in config") /\ epc' = "idle"
         ELSE IF subscriptionURL = <<>>
         THEN eret' = EnableReturned("no subscription URL configured") /\ epc' = "idle"
         ELSE eret' = EnableNotReturned /\ epc' = "download"
    /\ UNCHANGED <<binary, lifeVars, dlVars, selVars, parseVars, configFile, savedNode>>

\* what Download leaves and returns: nothing to do, or no source delivers,
\* or the binary is installed by the first source asked, or it is installed
\* by a later source and the error of an earlier one is returned
DownloadOutcomes(b) ==
    IF BinaryExists(b)
    THEN {[binary |-> b, err |-> ""]}
    ELSE {[binary |-> b, err |-> "failed to download Xray"],
          [binary |-> "complete", err |-> ""],
          [binary |-> "complete", err |-> "failed to download Xray"]}

\* EnableProxy, lines 268-270
EnableDownload ==
    /\ epc = "download"
    /\ \E o \in DownloadOutcomes(binary) :
         /\ binary' = o.binary
         /\ EnableStep("download", o.err, "fetch")
    /\ UNCHANGED <<lifeVars, dlVars, selVars, parseVars, configFile, savedNode, calls>>

\* EnableProxy, lines 274-277
EnableFetch ==
    /\ epc = "fetch"
    /\ \E r \in {ParseErr(why) : why \in {"failed to fetch subscription",
                                         "subscription returned status",
                                         "failed to read subscription data"}}
                \cup {parseSubscription(content)} :
         /\ pret' = ParseReturned("FetchSubscription", r)
         /\ EnableStep("fetch", r.err, "select")
    /\ UNCHANGED <<binary, lifeVars, dlVars, selVars, content, configFile, savedNode, calls>>

\* EnableProxy, lines 283-286: SelectFastestNode returns the node of the
\* subscription with the lowest latency, or an error when no dial succeeded
EnableSelect ==
    /\ epc = "select"
    /\ \E k \in 0..Len(pret.nodes) :
         IF k = 0
         THEN EnableStep("select", "failed to select node", "generate")
         ELSE /\ ecall' = [ecall EXCEPT !.node = pret.nodes[k],
                                        !.steps = Append(@, [step |-> "select", err |-> ""])]
              /\ epc' = "generate"
              /\ eret' = eret
    /\ UNCHANGED <<binary, lifeVars, dlVars, selVars, parseVars, configFile, savedNode,
                   calls>>

\* EnableProxy, lines 291-293
EnableGenerateGoesOn ==
    /\ epc = "generate"
    /\ \E outcome \in {"ok", "open error", "write error"} :
         /\ configFile' = GenerateConfig(ecall.node, configFile, outcome).file
         /\ ecall' = [ecall EXCEPT !.steps =
                        Append(@, [step |-> "generate",
                                   err |-> GenerateConfig(ecall.node, configFile, outcome).err])]
         /\ eret' = eret
         /\ epc' = "start"
    /\ ev' = NoEv
    /\ UNCHANGED <<binary, pidFile, logFile, procs, cmd, pc, pre, spawns, dlVars, selVars,
                   parseVars, savedNode, calls>>
EnableGenerate ==
    /\ epc = "generate"
    /\ \E outcome \in {"ok", "open error", "write error"} :
         /\ configFile' = GenerateConfig(ecall.node, configFile, outcome).file
         /\ EnableStep("generate", GenerateConfig(ecall.node, configFile, outcome).err,
                       "start")
    /\ ev' = NoEv
    /\ UNCHANGED <<binary, pidFile, logFile, procs, cmd, pc, pre, spawns, dlVars, selVars,
                   parseVars, savedNode, calls>>

\* EnableProxy, line 296: the three steps of Start
EnableStartCheck ==
    /\ epc = "start"
    /\ ev.op # "Start"
    /\ StartCheck(ecall.m)

EnableStartSpawn ==
    /\ epc = "start"
    /\ StartSpawn(ecall.m)

EnableStartWritePid ==
    /\ epc = "start"
    /\ StartWritePid(ecall.m)

\* EnableProxy, lines 296-313: Start has returned; m.config.Save() can fail
\* and is then only reported
EnableReturn ==
    /\ epc = "start"
    /\ ev.op = "Start"
    /\ ev.ret # "pending"
    /\ epc' = "idle"
    /\ ecall' = [ecall EXCEPT !.steps =
                   Append(@, [step |-> "start",
                              err |-> IF ev.ret = "ok" THEN "" ELSE "failed to start Xray"])]
    /\ IF ev.ret = "ok"
       THEN /\ eret' = EnableReturned("")
            /\ savedNode' \in {ecall.node.Name, savedNode}
       ELSE /\ eret' = EnableReturned("failed to start Xray")
            /\ savedNode' = savedNode
    /\ UNCHANGED <<binary, lifeVars, dlVars, selVars, parseVars, configFile, calls>>

\* the controller exits; the next call comes from a new manager
EnableNewManager ==
    /\ epc = "idle"
    /\ \E m \in Managers : NewXrayManager(m)

NextEnable ==
    \/ EnableBegin
    \/ EnableDownload
    \/ EnableFetch
    \/ EnableSelect
    \/ EnableGenerate
    \/ EnableStartCheck
    \/ EnableStartSpawn
    \/ EnableStartWritePid
    \/ EnableReturn
    \/ EnableNewManager

EnableInit ==
    /\ epc = "idle"
    /\ ecall = NoCall
    /\ eret = EnableNotReturned
    /\ savedNode = <<>>
    /\ calls = 0

\* subscriptions: a list with one link of each scheme, a Clash file, and a
\* text without any node
EnableDocs ==
    { [text |-> JoinLines(<< <<"vmess://", "eyJwcyI6Im4iLCJhZGQiOiJoIiwicG9ydCI6NDQzLCJpZCI6InUiLCJuZXQiOiJ3cyIsInRscyI6InRscyJ9">>,
                             <<"vless://", "u", "@", "v", ":", "4", "4", "3", "#", "l">>,
                             <<"trojan://", "p", "@", "t", ":", "4", "4", "3", "#", "t">>,
                             <<"ss://", "YWVzLTI1Ni1nY206cHc=", "@", "s", ":", "8", "3", "8",
                               "8", "#", "s">> >>),
       yaml |-> YAMLFailure],
      [text |-> YAMLText(<< [YAMLProxy(<<"a">>, "trojan", <<"t">>, 443)
                               EXCEPT !.SNI = <<"cdn">>],
                            YAMLProxy(<<"b">>, "shadowsocks", <<"s">>, 8388),
                            YAMLProxy(<<"c">>, "hysteria2", <<"h">>, 443) >>),
       yaml |-> YAMLDocument(<< [YAMLProxy(<<"a">>, "trojan", <<"t">>, 443)
                                   EXCEPT !.SNI = <<"cdn">>],
                                YAMLProxy(<<"b">>, "shadowsocks", <<"s">>, 8388),
                                YAMLProxy(<<"c">>, "hysteria2", <<"h">>, 443) >>)],
      [text |-> <<>>, yaml |-> YAMLDocument(<<>>)] }

(***************************************************************************)
(* Specifications                                                          *)
(***************************************************************************)
\* the platform and the data files of a part that does not run Download
DlQuiet ==
    /\ goos = "linux"
    /\ goarch = "amd64"
    /\ geoFiles = [k \in 1..Len(geoNames) |-> "absent"]
    /\ DlInit

\* the subscription of a part that does not select
SelQuiet ==
    /\ nodes = <<>>
    /\ SelInit

\* the subscription text of a part that does not parse
ParseQuiet ==
    /\ content = [text |-> <<>>, yaml |-> YAMLFailure]
    /\ pret = NotParsed

\* the config file of a part that does not call EnableProxy
EnableQuiet ==
    /\ configFile = NoConfigFile
    /\ EnableInit

InitLife ==
    /\ binary \in {"absent", "complete"}
    /\ LifeInit
    /\ DlQuiet
    /\ SelQuiet
    /\ ParseQuiet
    /\ EnableQuiet

SpecLife == InitLife /\ [][NextLife]_vars

InitDownload ==
    /\ binary \in {"absent", "complete"}
    /\ goos \in {"linux", "darwin"}
    /\ goarch \in {"amd64", "arm64"}
    /\ geoFiles \in [1..Len(geoNames) -> {"absent", "complete"}]
    /\ DlInit
    /\ LifeInit
    /\ SelQuiet
    /\ ParseQuiet
    /\ EnableQuiet

SpecDownload == InitDownload /\ [][NextDownload]_vars

InitSelect ==
    /\ binary = "complete"
    /\ \E n \in 0..MaxNodes : nodes = [k \in 1..n |-> [Latency |-> 0, dial |-> NotDialled]]
    /\ SelInit
    /\ LifeInit
    /\ DlQuiet
    /\ ParseQuiet
    /\ EnableQuiet

SpecSelect == InitSelect /\ [][NextSelect]_vars

InitParse ==
    /\ binary = "complete"
    /\ ParseInit
    /\ LifeInit
    /\ DlQuiet
    /\ SelQuiet
    /\ EnableQuiet

SpecParse == InitParse /\ [][NextParse]_vars

\* EnableProxy is called on a machine with or without the engine binary and
\* with or without a config file of an earlier call
InitEnable ==
    /\ binary \in {"absent", "complete"}
    /\ content \in EnableDocs
    /\ pret = NotParsed
    /\ configFile \in {NoConfigFile,
                       ConfigFile(generateVMessConfig([ZeroNode EXCEPT !.Type = "vmess"]))}
    /\ EnableInit
    /\ LifeInit
    /\ DlQuiet
    /\ SelQuiet

SpecEnable == InitEnable /\ [][NextEnable]_vars

(***************************************************************************)
(* Properties                                                              *)
(***************************************************************************)
AllFailed(log) ==
    \A k \in 1..Len(log) : log[k].result \notin {NoErr, Pending}

\* C1: when the first download source fails and a later source delivers a
\* valid archive, Download returns success, the binary is installed and
\* neither temp file remains.
C1_LaterSourceSucceeds ==
    (/\ dret.done
     /\ Len(dlLog) >= 2
     /\ dlLog[1].result \notin {NoErr, Pending}
     /\ dlLog[Len(dlLog)].result = NoErr)
    => (/\ dret.ok
        /\ binary = "complete"
        /\ tmpZip = "absent"
        /\ tmpBin = "absent")

\* C2: a Start called while the PID file names a live engine returns the
\* "already running" error and spawns no process, with or without the
\* in-memory handle.  (Calls that end on a failure to open the log file or
\* to execute the binary are left aside.)
C2_StartWhileRunning ==
    (/\ ev.op = "Start"
     /\ ev.live
     /\ binary = "complete"
     /\ ev.pid # 0 \/ ev.ret \notin {"pending", "log file error", "spawn error"})
    => (ev.ret = "already running" /\ ev.pid = 0)

\* C3: after any call of Stop has returned, with success or with an error,
\* the PID file does not exist.
C3_StopRemovesPidFile ==
    (ev.op = "Stop" /\ ev.ret # "pending") => ~pidFile.exists

\* C4: whenever Start returns success, an engine was spawned and the PID
\* file exists and holds exactly the decimal PID of that engine.
C4_StartWritesPid ==
    (ev.op = "Start" /\ ev.ret = "ok")
    => (/\ ev.pid \in Pids
        /\ pidFile.exists
        /\ pidFile.text = FormatDecimal(ev.pid))

\* C5: for a manager without in-memory handle, IsRunning returns true
\* exactly when the PID file exists and names a live process.
C5_IsRunningFromPidFile ==
    (ev.op = "IsRunning" /\ cmd[ev.m] \notin Pids)
    => (ev.ret = "true" <=> PidFileNamesLiveProcess)

\* the nodes whose probe succeeded
Reachable == {k \in 1..Len(nodes) : nodes[k].dial.ok}

\* C6: SelectFastestNode returns the node of minimum latency among the
\* nodes whose probe succeeded, and the earliest of them in source order
\* when several share the minimum; probes {50, fail, 10} give the third
\* node and {10, fail, 10} the first.
C6_FastestFirstOnTies ==
    (spc = "done" /\ sret.err = "nil")
    => (/\ sret.node \in Reachable
        /\ \A k \in Reachable :
             /\ nodes[k].dial.ms >= nodes[sret.node].dial.ms
             /\ nodes[k].dial.ms = nodes[sret.node].dial.ms => sret.node <= k
        /\ [k \in 1..Len(nodes) |-> nodes[k].Latency] = <<50, -1, 10>>
             => sret.node = 3
        /\ [k \in 1..Len(nodes) |-> nodes[k].Latency] = <<10, -1, 10>>
             => sret.node = 1)

C6_Witness ==
    /\ spc = "done"
    /\ [k \in 1..Len(nodes) |-> nodes[k].Latency] = <<10, -1, 10>>
    /\ sret.node = 1

\* C7: SelectFastestNode returns an error exactly when there is no node or
\* every probe failed; otherwise it returns a node of the subscription whose
\* recorded latency is >= 0.
C7_ErrorIffNoneReachable ==
    spc = "done"
    => (/\ sret.err # "nil" <=> Reachable = {}
        /\ sret.err = "nil"
             => (/\ sret.node \in 1..Len(nodes)
                 /\ nodes[sret.node].Latency >= 0)
        /\ sret.err # "nil" => sret.node = 0)

C7_Witness ==
    /\ spc = "done"
    /\ Len(nodes) >= 2
    /\ Reachable = {}
    /\ sret.err = "no reachable nodes found"

\* the release the binary download has to use, read off the answers of the
\* version-info requests
ReleaseExpected ==
    LET last == apiLog[Len(apiLog)].result
    IN IF last.err = NoErr
       THEN [version |-> last.version, asset |-> last.asset]
       ELSE [version |-> "v1.8.4",
             asset |-> Asset(XrayOsName(goos), XrayArchName(goarch), ".zip")]

\* C8: the download sources are attempted in list order, every attempt
\* uses the same discovered version and asset name, and no source is
\* contacted after the first success.
C8_DownloadInOrder ==
    \A k \in 1..Len(dlLog) :
        /\ dlLog[k].src = k
        /\ dlLog[k].version = ReleaseExpected.version
        /\ dlLog[k].asset = ReleaseExpected.asset
        /\ k < Len(dlLog) => dlLog[k].result \notin {NoErr, Pending}

C8_Witness ==
    /\ dpc = "after_loop"
    /\ Len(dlLog) = 1
    /\ dlLog[1].result = NoErr
    /\ binary = "complete"

\* C9: when every download source fails, Download returns an error that
\* carries the last source's error, the binary does not exist, no temp file
\* is left and the geo data download is not attempted.
C9_AllSourcesFail ==
    (dret.done /\ Len(dlLog) = NumSources /\ AllFailed(dlLog))
    => (/\ ~dret.ok
        /\ dret.err = dlLog[NumSources].result
        /\ dret.err.src = NumSources
        /\ binary = "absent"
        /\ tmpZip = "absent"
        /\ tmpBin = "absent"
        /\ geoLog = <<>>
        /\ \A k \in 1..Len(geoNames) : geoTmp[k] = "absent")

C9_Witness ==
    /\ dret.done
    /\ Len(dlLog) = NumSources
    /\ AllFailed(dlLog)
    /\ dlLog[1].result.why = "HTTP 404"
    /\ dlLog[NumSources].result.why = "failed to copy file"

\* C10: version discovery asks the sources in list order and takes the
\* first successful answer; when all fail, Download goes on with version
\* v1.8.4 and the default asset name, starts the binary download at the
\* first source and gives up only after every source was attempted.
C10_DiscoveryFallback ==
    /\ \A k \in 1..Len(apiLog) :
         /\ apiLog[k].src = k
         /\ k < Len(apiLog) => apiLog[k].result.err # NoErr
    /\ (apiLog # <<>> /\ dpc # "discover")
       => (/\ version = ReleaseExpected.version
           /\ assetName = ReleaseExpected.asset
           /\ apiLog[Len(apiLog)].result.err # NoErr
                => (/\ Len(apiLog) = NumSources
                    /\ dpc = "request" /\ dlLog = <<>> => di = 1
                    /\ dpc = "done"
                         => (/\ dlLog # <<>>
                             /\ dret.err # NoErr => Len(dlLog) = NumSources)))

C10_Witness ==
    /\ dpc = "done"
    /\ Len(apiLog) = NumSources
    /\ apiLog[NumSources].result.err.why = "no suitable binary"
    /\ version = "v1.8.4"
    /\ Len(dlLog) = NumSources

\* the requests made for geo data file f, in order
GeoEntries(f) == SelectSeq(geoLog, LAMBDA e : e.file = f)

\* C11: downloadGeoData reports a failure only when every source of one
\* file failed; when a later source of a file succeeds the file is installed
\* and the next file is still processed; a file that is present is skipped
\* without any request and stays as it was.
C11_GeoFailureOnlyWhenAllFail ==
    dret.done =>
      /\ dret.warning # NoErr
           => \E f \in 1..Len(geoNames) :
                /\ Len(GeoEntries(f)) = NumGeoSources
                /\ AllFailed(GeoEntries(f))
      /\ \A f \in 1..Len(geoNames) :
           /\ (/\ GeoEntries(f) # <<>>
               /\ GeoEntries(f)[Len(GeoEntries(f))].result = NoErr)
                => /\ geoFiles[f] = "complete"
                   /\ f < Len(geoNames)
                        => \/ atCall.geoFiles[f + 1] # "absent"
                           \/ GeoEntries(f + 1) # <<>>
           /\ atCall.geoFiles[f] # "absent"
                => /\ GeoEntries(f) = <<>>
                   /\ geoFiles[f] = atCall.geoFiles[f]

\* C12: whenever the binary is present when Download returns (it was there
\* at the call or it was installed), Download returns success; the outcome
\* of the geo data downloads shows only in the warning.
C12_GeoNeverFailsDownload ==
    (dret.done /\ binary = "complete") => dret.ok

\* C13: at every point of a Download the binary path and each geo data path
\* hold what they held at the call or the complete new file; a partly
\* written file exists only under a temp name.
C13_InstallAtomic ==
    /\ binary \in {atCall.binary, "complete"}
    /\ \A f \in 1..Len(geoNames) : geoFiles[f] \in {atCall.geoFiles[f], "complete"}

C13_Witness ==
    /\ Len(dlLog) = 2
    /\ dlLog[1].result.why = "failed to copy file"
    /\ tmpBin = "partial"
    /\ binary = "absent"

\* C14: when the binary exists at the call, Download asks no source for the
\* version, requests no binary download, creates no temp file and leaves
\* the binary as it was.
C14_ExistingBinaryNoOp ==
    atCall.binary # "absent"
      => /\ apiLog = <<>>
         /\ dlLog = <<>>
         /\ tmpZip = "absent"
         /\ tmpBin = "absent"
         /\ binary = atCall.binary

C14_Witness ==
    /\ atCall.binary = "complete"
    /\ dret.done
    /\ geoLog # <<>>

\* C15: a call of Start that finds the binary absent returns "not found,
\* download first" and changes nothing: no process, PID file, log file or
\* command handle is created or changed.
C15_StartWithoutBinary ==
    [][\A m \in Managers :
         (pc[m] = "idle" /\ ev'.op = "Start" /\ ev'.m = m /\ binary = "absent")
           => /\ ev'.ret = "not found"
              /\ UNCHANGED <<procs, pidFile, logFile, cmd, pc, spawns>>]_vars

C15_Witness ==
    /\ ev.op = "Start"
    /\ ev.ret = "not found"
    /\ pidFile.exists
    /\ logFile
    /\ \E p \in Pids : procs[p] = "engine"

FetchErrors ==
    {"failed to fetch subscription", "subscription returned status",
     "failed to read subscription data"}

\* the parser was reached and has returned
Parsed(fn) ==
    /\ pret.done
    /\ pret.fn = fn
    /\ pret.err \notin FetchErrors \cup {"failed to read file"}

\* C16: FetchSubscription and LoadFromFile never return success with an
\* empty node sequence.
C16_NeverEmptySuccess ==
    (pret.done /\ pret.err = "") => Len(pret.nodes) >= 1

C16_Witness ==
    /\ Parsed("FetchSubscription")
    /\ pret.err = "no valid nodes found in subscription"
    /\ Len(Split(content.text, "\n")) >= 2

\* C17: every node of a successful parse has a non-empty server and a port
\* in 1..65535.
C17_NodesHaveServerAndPort ==
    (pret.done /\ pret.err = "")
      => \A k \in 1..Len(pret.nodes) :
           /\ pret.nodes[k].Server # <<>>
           /\ pret.nodes[k].Port \in 1..65535

\* a line with a recognized scheme whose link names a server and a port in
\* range
WellFormedLine(line) ==
    /\ TrimSpace(line) # <<>>
    /\ ParseLine(TrimSpace(line)).ok
    /\ ParseLine(TrimSpace(line)).node.Server # <<>>
    /\ ParseLine(TrimSpace(line)).node.Port \in 1..65535

\* C18: a list of links with at least one well-formed line yields exactly
\* the nodes of its well-formed lines, in their order; the other lines
\* yield neither a node nor an error.
C18_ExactlyTheWellFormedLines ==
    LET lines == Split(content.text, "\n")
        wellFormed == SelectSeq(lines, WellFormedLine)
    IN (/\ Parsed("FetchSubscription")
        /\ ~LooksLikeYAML(content.text)
        /\ wellFormed # <<>>)
         => /\ pret.err = ""
            /\ Len(pret.nodes) = Len(wellFormed)
            /\ \A k \in 1..Len(wellFormed) :
                 pret.nodes[k] = ParseLine(TrimSpace(wellFormed[k])).node

\* an entry of a YAML document that names a server and a port
UsableProxy(proxy) == proxy.Server # <<>> /\ proxy.Port # 0

\* C19: for a text with the YAML marker, parseSubscription returns the YAML
\* nodes when the YAML reading yields at least one node, and otherwise
\* exactly what the reading as a list of links returns.
C19_FormatDetectionAdvisory ==
    (Parsed("FetchSubscription") /\ LooksLikeYAML(content.text))
      => IF /\ ~content.yaml.err
            /\ \E k \in 1..Len(content.yaml.proxies) : UsableProxy(content.yaml.proxies[k])
         THEN /\ pret.err = ""
              /\ pret.nodes = YAMLNodes(content.yaml.proxies)
         ELSE [err |-> pret.err, nodes |-> pret.nodes] = ParseURLFormat(content.text)

C19_Witness ==
    /\ Parsed("FetchSubscription")
    /\ LooksLikeYAML(content.text)
    /\ content.yaml.err
    /\ pret.err = ""
    /\ Len(pret.nodes) >= 1

\* C20: parseYAMLSubscription leaves out the entries with an empty server
\* or a zero port; every other entry yields one node, in source order.
C20_YAMLEntriesFiltered ==
    LET kept == SelectSeq(content.yaml.proxies, UsableProxy)
    IN (Parsed("LoadFromFile") /\ ~content.yaml.err)
         => IF kept = <<>>
            THEN pret.err # ""
            ELSE /\ pret.err = ""
                 /\ Len(pret.nodes) = Len(kept)
                 /\ \A k \in 1..Len(kept) :
                      /\ pret.nodes[k].Name = kept[k].Name
                      /\ pret.nodes[k].Type = kept[k].Type
                      /\ pret.nodes[k].Server = kept[k].Server
                      /\ pret.nodes[k].Port = kept[k].Port

C20_Witness ==
    /\ Parsed("LoadFromFile")
    /\ pret.err = ""
    /\ Len(content.yaml.proxies) = 3
    /\ Len(pret.nodes) = 2
    /\ ~UsableProxy(content.yaml.proxies[2])
    /\ pret.nodes[1].Name # pret.nodes[2].Name

\* C24: at most one engine process is alive at any time.
C24_AtMostOneEngine ==
    Cardinality({p \in Pids : procs[p] = "engine"}) <= 1

\* C25: between calls, every live engine is named by the PID file.
C25_NoOrphanEngine ==
    (\A m \in Managers : pc[m] = "idle")
      => \A p \in Pids :
           procs[p] = "engine"
             => /\ pidFile.exists
                /\ SscanfPid(pidFile.text) = p

\* C26: a step of Stop never terminates a process that is not the engine,
\* and IsRunning answers false when the PID file names such a process.
C26_StopKillsOnlyTheEngine ==
    [][/\ \A p \in Pids :
            (procs[p] = "other" /\ ev'.op = "Stop") => procs'[p] = "other"
       /\ (/\ ev'.op = "IsRunning"
           /\ pidFile.exists
           /\ SscanfPid(pidFile.text) \in Pids
           /\ procs[SscanfPid(pidFile.text)] = "other")
            => ev'.ret = "false"]_vars

\* C30: within one manager, a Stop that follows a successful Start kills
\* that engine and clears the handle; when Stop returns, the PID file is
\* absent and IsRunning is false; a Start called next is not refused as
\* already running and goes on to spawn.
C30_StartStopAlternate ==
    [][\A m \in Managers :
         /\ (/\ pc[m] = "idle" /\ cmd[m] \in Pids
             /\ ev'.op = "Stop" /\ ev'.m = m /\ ev'.ret = "pending")
              => /\ procs'[cmd[m]] = "free"
                 /\ cmd'[m] = NoCmd
         /\ (ev'.op = "Stop" /\ ev'.m = m /\ ev'.ret = "ok")
              => /\ ~pidFile'.exists
                 /\ cmd[m] = NoCmd => ~IsRunning(m)'
         /\ (/\ ev.op = "Stop" /\ ev.m = m /\ ev.ret = "ok" /\ cmd[m] = NoCmd
             /\ ev'.op = "Start" /\ ev'.m = m /\ binary # "absent")
              => ev'.ret \in {"pending", "log file error"}]_vars

C30_Witness ==
    /\ ev.op = "Stop"
    /\ ev.ret = "ok"
    /\ spawns = 2
    /\ cmd[ev.m] = NoCmd
    /\ ~pidFile.exists
    /\ \A p \in Pids : procs[p] # "engine"

(***************************************************************************)
(* GenerateConfig and EnableProxy (SpecEnable)                             *)
(***************************************************************************)
\* the last step of the current call that has returned
LastStep == ecall.steps[Len(ecall.steps)]
Generated == ecall.steps # <<>> /\ LastStep.step = "generate"
\* GenerateConfig has written the config of the selected node
GeneratedOk ==
    \E k \in 1..Len(ecall.steps) : ecall.steps[k].step = "generate" /\ ecall.steps[k].err = ""

C22_TrojanServerName ==
    (GeneratedOk /\ ecall.node.Type = "trojan") =>
      configFile.data.outbounds[1].streamSettings.tlsSettings.serverName
        = (IF ecall.node.SNI # <<>> THEN ecall.node.SNI ELSE ecall.node.Server)
C22_Witness ==
    /\ GeneratedOk
    /\ ecall.node.Type = "trojan"
    /\ ecall.node.SNI = <<>>
    /\ ecall.node.Server # <<>>
    /\ configFile.data.outbounds[1].streamSettings.tlsSettings.serverName = ecall.node.Server

\* C23: every generated config has exactly one inbound (SOCKS on the local
\* port with UDP), exactly two outbounds tagged "proxy" then "direct", and
\* exactly three routing rules (private IPs, regional IPs, regional
\* domains, in this order) that all go to "direct"; whatever the kind, only
\* the proxy outbound differs.
C23_FixedStructure ==
    GeneratedOk =>
      /\ configFile.data.inbounds
           = << [port |-> LocalPort, protocol |-> "socks", settings |-> [udp |-> TRUE]] >>
      /\ Len(configFile.data.outbounds) = 2
      /\ configFile.data.outbounds[1].tag = "proxy"
      /\ configFile.data.outbounds[2]
           = [tag |-> "direct", protocol |-> "freedom", settings |-> <<>>]
      /\ Len(configFile.data.routing.rules) = 3
      /\ \A k \in 1..3 : configFile.data.routing.rules[k].outboundTag = "direct"
      /\ configFile.data.routing.rules[1]
           = [type |-> "field", ip |-> <<"geoip:private">>, outboundTag |-> "direct"]
      /\ configFile.data.routing.rules[2]
           = [type |-> "field", ip |-> <<"geoip:cn">>, outboundTag |-> "direct"]
      /\ configFile.data.routing.rules[3]
           = [type |-> "field", domain |-> <<"geosite:cn">>, outboundTag |-> "direct"]
      /\ configFile.data.outbounds[1].protocol
           = (IF ecall.node.Type = "ss" THEN "shadowsocks" ELSE ecall.node.Type)
C23_Witness ==
    /\ GeneratedOk
    /\ ecall.node.Type = "ss"
    /\ configFile.data.outbounds[1].protocol = "shadowsocks"
    /\ Len(configFile.data.outbounds) = 2

\* C27: config.json is the config the running engine was started with: a
\* call of EnableProxy that fails leaves config.json as it found it.
C27_ConfigOfRunningEngine ==
    (eret.done /\ eret.err # "") => configFile = ecall.config0

\* C28: GenerateConfig accepts every node of a successful parse: it never
\* answers "unsupported node type" for the selected node.
C28_ParsedNodesSupported ==
    Generated => LastStep.err # "unsupported node type"

\* the steps of EnableProxy, in order
EnableOrder == <<"download", "fetch", "select", "generate", "start">>

\* C29: EnableProxy acquires the binary, fetches the subscription, selects
\* a node, generates the config and starts the engine, in this order, and
\* stops at the first step that fails; a failing call spawns no engine and
\* leaves the saved current node alone.
C29_StepsInOrder ==
    /\ Len(ecall.steps) <= Len(EnableOrder)
    /\ \A k \in 1..Len(ecall.steps) :
         /\ ecall.steps[k].step = EnableOrder[k]
         /\ k < Len(ecall.steps) => ecall.steps[k].err = ""
    /\ (ecall.steps # <<>> /\ LastStep.err # "") => (eret.done /\ eret.err = LastStep.err)
    /\ (epc # "idle" \/ eret.done) =>
         /\ spawns > ecall.spawns0 => (Len(ecall.steps) >= 4 /\ ecall.steps[4].err = "")
         /\ savedNode # ecall.saved0 => (eret.done /\ eret.err = "")
         /\ (eret.done /\ eret.err # "") => (spawns = ecall.spawns0 /\ savedNode = ecall.saved0)
C29_Witness ==
    /\ eret.done
    /\ eret.err = "failed to start Xray"
    /\ Len(ecall.steps) = 5
    /\ spawns = ecall.spawns0
    /\ savedNode = ecall.saved0

====
